---------------------------- MODULE Spec2Model ----------------------------
(***************************************************************************)
(* A model of src/crawlweb.py: the link extractor (linkFinder), the        *)
(* indexer (addToIndex, addPageToIndex), the crawler (crawlWeb) and the    *)
(* rank engine (computeRanks).                                             *)
(*                                                                         *)
(* Python strings are sequences of one-character strings.  Indices into    *)
(* them are 0-based, as in the source, and -1 is str.find's "not found".   *)
(***************************************************************************)
EXTENDS Integers, Sequences, FiniteSets, TLC

VARIABLES
    \* linkFinder (src/crawlweb.py:86-141)
    lfAnchors,   \* the anchors the input markup was written from (input only)
    lfBase,      \* baseUrl after line 109 (<<>> when None or '')
    lfPage,      \* the local variable page
    lfUrls,      \* the local variable urls
    lfPc,        \* "idle" | "scan" (line 111) | "done" (line 141)
    \* addPageToIndex (src/crawlweb.py:55-67)
    ixWords,     \* the words the input content was written from (input only)
    ixUrl,       \* the argument url
    ixContent,   \* the argument content
    ixOld,       \* the index as it was at the call
    ixPc,        \* "idle" | "call" | "ret"
    \* crawlWeb (src/crawlweb.py:144-168)
    web,         \* what the network serves for each URL (getPage's world)
    tocrawl, crawled, index, graph,
    fetches,     \* how many times getPage was called for each URL
    pc,          \* "idle" | "loop" (line 159) | "linkFinder" (inside line 164) | "done" (line 168)
    \* computeRanks (src/crawlweb.py:171-198)
    rkGraph,     \* the argument graph
    ranks,       \* the local variable ranks (numerators over Den(rkI), see computeRanks)
    rkI,         \* how many iterations of the loop at line 189 have completed
    rkFault,     \* TRUE once a division by zero has been evaluated
    rkPc,        \* "idle" | "call" | "loop" (line 189) | "raised" | "done" (line 198)
    \* lookUpRanked (src/crawlweb.py:201-224)
    lkIndex,     \* the argument index: its entries [word, urls] in the order of index.keys()
    lkKeyword,   \* the argument keyword
    lkRanks,     \* the argument ranks
    lkResult,    \* the value returned: None, or a list
    lkPc         \* "idle" | "call" | "done"

lfVars == <<lfAnchors, lfBase, lfPage, lfUrls, lfPc>>
ixVars == <<ixWords, ixUrl, ixContent, ixOld, ixPc>>
crawlVars == <<web, tocrawl, crawled, index, graph, fetches, pc>>
rkVars == <<rkGraph, ranks, rkI, rkFault, rkPc>>
lkVars == <<lkIndex, lkKeyword, lkRanks, lkResult, lkPc>>
vars == <<lfVars, ixVars, crawlVars, rkVars, lkVars>>

---------------------------------------------------------------------------
(* Python's str operations, as the source uses them.                       *)

Min(S) == CHOOSE x \in S : \A y \in S : x <= y

\* str.find(sub, start): the lowest 0-based index >= start where sub occurs, or -1.
Find(s, sub, start) ==
    LET hits == {i \in start..(Len(s) - Len(sub)) : SubSeq(s, i + 1, i + Len(sub)) = sub}
    IN  IF hits = {} THEN -1 ELSE Min(hits)

\* A slice bound as Python normalises it: negative counts from the end, then clamp.
SliceBound(s, i) ==
    IF i < 0 THEN (IF Len(s) + i < 0 THEN 0 ELSE Len(s) + i)
    ELSE (IF i > Len(s) THEN Len(s) ELSE i)

\* s[a:b]
Slice(s, a, b) ==
    LET lo == SliceBound(s, a)
        hi == SliceBound(s, b)
    IN  IF lo >= hi THEN <<>> ELSE SubSeq(s, lo + 1, hi)

\* s[a:]
SliceFrom(s, a) == Slice(s, a, Len(s))

\* s.startswith(p)
StartsWith(s, p) == Len(s) >= Len(p) /\ SubSeq(s, 1, Len(p)) = p

\* c in s, for a one-character c
HasChar(s, c) == \E i \in 1..Len(s) : s[i] = c

\* s.split(c)[0]
SplitHead(s, c) == IF HasChar(s, c) THEN Slice(s, 0, Find(s, <<c>>, 0)) ELSE s

DQ == <<"\"">>
Marker == <<"<", "a", " ", "h", "r", "e", "f", "=">>
Http == <<"h", "t", "t", "p", ":", "/", "/">>
Https == <<"h", "t", "t", "p", "s", ":", "/", "/">>
HttpColon == <<"h", "t", "t", "p", ":">>

\* link.startswith('http://') or link.startswith('https://')
IsHttp(link) == StartsWith(link, Http) \/ StartsWith(link, Https)

---------------------------------------------------------------------------
(* linkFinder                                                              *)

\* resolveLink with the fragment left in place (lines 122-123 dropped).
resolveLinkKeepFragment(link, baseUrl) ==
    LET withScheme == IF StartsWith(link, <<"/", "/">>) THEN HttpColon \o link ELSE link
    IN  IF ~IsHttp(withScheme) /\ baseUrl # <<>>
        THEN IF StartsWith(withScheme, <<"/">>)
             THEN baseUrl \o withScheme
             ELSE baseUrl \o <<"/">> \o withScheme
        ELSE withScheme

\* Lines 121-135: what one extracted value becomes before the filter.
resolveLink(link, baseUrl) ==
    LET noFragment == IF HasChar(link, "#") THEN SplitHead(link, "#") ELSE link
        withScheme == IF StartsWith(noFragment, <<"/", "/">>)
                      THEN HttpColon \o noFragment ELSE noFragment
    IN  IF ~IsHttp(withScheme) /\ baseUrl # <<>>
        THEN IF StartsWith(withScheme, <<"/">>)
             THEN baseUrl \o withScheme
             ELSE baseUrl \o <<"/">> \o withScheme
        ELSE withScheme

\* linkFinderIter with the filter of lines 138-139 dropped: every value is added.
linkFinderIterNoFilter(page, urls, baseUrl) ==
    LET startPoint == Find(page, Marker, 0)
        startQuote == Find(page, DQ, startPoint)
        endQuote   == Find(page, DQ, startQuote + 1)
        link       == resolveLink(Slice(page, startQuote + 1, endQuote), baseUrl)
    IN  [page |-> SliceFrom(page, endQuote + 1), urls |-> urls \cup {link}]

\* Lines 116-139: the body of one iteration of the loop, entered with a marker
\* in page.  The result is the loop's state after it.
linkFinderIter(page, urls, baseUrl) ==
    LET startPoint == Find(page, Marker, 0)
        startQuote == Find(page, DQ, startPoint)
        endQuote   == Find(page, DQ, startQuote + 1)
        link       == resolveLink(Slice(page, startQuote + 1, endQuote), baseUrl)
    IN  [page |-> SliceFrom(page, endQuote + 1),
         urls |-> IF IsHttp(link) THEN urls \cup {link} ELSE urls]

\* Lines 111-141 as a function.  An iteration that leaves page as it was
\* (endQuote = -1, so page[endQuote + 1:] is page) is repeated for ever by
\* `while True`: the call never returns, which is the result hung.
RECURSIVE linkFinderFrom(_, _, _)
linkFinderFrom(page, urls, baseUrl) ==
    IF Find(page, Marker, 0) = -1
    THEN [hung |-> FALSE, urls |-> urls]
    ELSE LET next == linkFinderIter(page, urls, baseUrl)
         IN  IF next.page = page
             THEN [hung |-> TRUE, urls |-> next.urls]
             ELSE linkFinderFrom(next.page, next.urls, baseUrl)

linkFinder(page, baseUrl) == linkFinderFrom(page, {}, baseUrl)

---------------------------------------------------------------------------
(* The link extractor on its own: every markup written from at most        *)
(* MaxAnchors anchors, well formed or not, under every base.               *)

MaxAnchors == 2

ExampleCom == <<"h", "t", "t", "p", "s", ":", "/", "/", "e", "x", "a", "m", "p", "l", "e", ".", "c", "o", "m">>

HrefValues ==
    { <<"/", "x">>,
      ExampleCom,
      <<"/", "/", "e", ".", "c">>,
      <<"p", "#", "f">>,
      <<"m", "a", "i", "l", "t", "o", ":", "m">>,
      <<"h", "t", "t", "p", ":", "/", "/", "a", "#", "b">> }

\* "ok": <a href="v">, "attr": <a href="v" id="i">, "noclose": <a href="v>,
\* "noquote": <a href=v>
AnchorKinds == {"ok", "attr", "noclose", "noquote"}
WellFormedKinds == {"ok", "attr"}

Anchors == [kind : AnchorKinds, val : HrefValues]

AnchorLists == UNION {[1..n -> Anchors] : n \in 0..MaxAnchors}

Bases == { <<>>, ExampleCom, <<"f", "t", "p", ":", "/", "/", "f">> }

RenderAnchor(a, i) ==
    Marker
    \o (IF a.kind = "noquote" THEN <<>> ELSE DQ)
    \o a.val
    \o (IF a.kind \in WellFormedKinds THEN DQ ELSE <<>>)
    \o (IF a.kind = "attr" THEN <<" ", "i", "d", "=">> \o DQ \o <<"i">> \o DQ ELSE <<>>)
    \o <<">">> \o (IF i = 1 THEN <<"l">> ELSE <<"l", "2">>) \o <<"<", "/", "a", ">">>

RECURSIVE RenderAnchorsFrom(_, _)
RenderAnchorsFrom(as, i) ==
    IF i > Len(as) THEN <<>> ELSE RenderAnchor(as[i], i) \o RenderAnchorsFrom(as, i + 1)

RenderAnchors(as) == RenderAnchorsFrom(as, 1)

LFIdle ==
    /\ lfAnchors = <<>> /\ lfBase = <<>> /\ lfPage = <<>> /\ lfUrls = {} /\ lfPc = "idle"

\* The call linkFinder(page, baseUrl): lines 108-109.
LFInit ==
    /\ lfAnchors \in AnchorLists
    /\ lfBase \in Bases
    /\ lfPage = RenderAnchors(lfAnchors)
    /\ lfUrls = {}
    /\ lfPc = "scan"

\* One iteration of the loop at line 111 that finds a marker.
LFIter ==
    /\ lfPc = "scan"
    /\ Find(lfPage, Marker, 0) # -1
    /\ LET next == linkFinderIter(lfPage, lfUrls, lfBase)
       IN  /\ lfPage' = next.page
           /\ lfUrls' = next.urls
    /\ UNCHANGED <<lfAnchors, lfBase, lfPc>>
    /\ UNCHANGED <<ixVars, crawlVars, rkVars, lkVars>>

\* Lines 113-114 and 141: no marker is left, the loop breaks and urls is returned.
LFReturn ==
    /\ lfPc = "scan"
    /\ Find(lfPage, Marker, 0) = -1
    /\ lfPc' = "done"
    /\ UNCHANGED <<lfAnchors, lfBase, lfPage, lfUrls>>
    /\ UNCHANGED <<ixVars, crawlVars, rkVars, lkVars>>

---------------------------------------------------------------------------
(* URLs of the modelled web: http://a, http://b, ...                       *)

NumUrls == 3

UrlNames == <<"a", "b", "c", "d", "e", "f">>

Url(i) == Http \o <<UrlNames[i]>>

Urls == {Url(i) : i \in 1..NumUrls}

---------------------------------------------------------------------------
(* addToIndex, addPageToIndex.  An index is a function from tokens to      *)
(* sequences of URLs; the empty dict is <<>>.                              *)

Whitespace == {" ", "\t", "\n"}

\* str.split() with no separator: the maximal runs of non-whitespace, in order.
\* A word starts at a non-whitespace character preceded by none, and runs up to
\* the last character before the next whitespace.
Split(s) ==
    LET starts == {i \in 1..Len(s) : s[i] \notin Whitespace /\ (i = 1 \/ s[i - 1] \in Whitespace)}
        EndOf(i) == Min({j \in i..Len(s) : j = Len(s) \/ s[j + 1] \in Whitespace})
        Start(k) == CHOOSE i \in starts : Cardinality({j \in starts : j < i}) = k - 1
    IN  [k \in 1..Cardinality(starts) |-> SubSeq(s, Start(k), EndOf(Start(k)))]

\* addToIndex that does not list a URL twice under a keyword.
addToIndexOnce(idx, keyword, url) ==
    IF keyword \in DOMAIN idx
    THEN IF \E i \in DOMAIN idx[keyword] : idx[keyword][i] = url
         THEN idx
         ELSE [idx EXCEPT ![keyword] = Append(@, url)]
    ELSE [k \in DOMAIN idx \cup {keyword} |-> IF k = keyword THEN <<url>> ELSE idx[k]]

\* Lines 49-52.
addToIndex(idx, keyword, url) ==
    IF keyword \in DOMAIN idx
    THEN [idx EXCEPT ![keyword] = Append(@, url)]
    ELSE [k \in DOMAIN idx \cup {keyword} |-> IF k = keyword THEN <<url>> ELSE idx[k]]

\* Lines 65-66: the loop over words, from word i on.
RECURSIVE addWordsFrom(_, _, _, _)
addWordsFrom(idx, url, words, i) ==
    IF i > Len(words) THEN idx
    ELSE addWordsFrom(addToIndex(idx, words[i], url), url, words, i + 1)

\* Lines 64-67.
addPageToIndex(idx, url, content) == addWordsFrom(idx, url, Split(content), 1)

---------------------------------------------------------------------------
(* The indexer on its own: a content written from at most MaxWords words   *)
(* with several kinds of whitespace, added to several indexes.             *)

MaxWords == 3

Words == { <<"h", "i">>, <<"H", "i">>, <<"h", "i", ",">> }

WordLists == UNION {[1..n -> Words] : n \in 0..MaxWords}

\* "plain": single blanks between the words; "ragged": a leading blank, a
\* newline and a tab between the words, a trailing newline.
Layouts == {"plain", "ragged"}

RECURSIVE JoinFrom(_, _, _)
JoinFrom(words, i, sep) ==
    IF i > Len(words) THEN <<>>
    ELSE (IF i > 1 THEN sep ELSE <<>>) \o words[i] \o JoinFrom(words, i + 1, sep)

Layout(words, layout) ==
    IF layout = "plain" THEN JoinFrom(words, 1, <<" ">>)
    ELSE <<" ">> \o JoinFrom(words, 1, <<"\n", "\t">>) \o <<"\n">>

OldIndexes ==
    { <<>>,
      [k \in { <<"h", "i">> } |-> <<Url(1)>>],
      [k \in { <<"h", "i">>, <<"z">> } |-> IF k = <<"z">> THEN <<Url(2)>> ELSE <<Url(2), Url(1), Url(2)>>] }

IxInit ==
    /\ ixWords \in WordLists
    /\ ixUrl \in {Url(1), Url(2)}
    /\ \E layout \in Layouts : ixContent = Layout(ixWords, layout)
    /\ ixOld \in OldIndexes
    /\ index = ixOld
    /\ ixPc = "call"

\* The call addPageToIndex(index, url, content), lines 64-67.
IxAddPage ==
    /\ ixPc = "call"
    /\ index' = addPageToIndex(index, ixUrl, ixContent)
    /\ ixPc' = "ret"
    /\ UNCHANGED <<ixWords, ixUrl, ixContent, ixOld>>
    /\ UNCHANGED <<web, tocrawl, crawled, graph, fetches, pc>>
    /\ UNCHANGED <<lfVars, rkVars, lkVars>>

---------------------------------------------------------------------------
(* getPage and the web it reads.  For each URL the web holds what a fetch  *)
(* of it gives: "fail" (urlopen or decode raises), "ok" (a page with words *)
(* and one anchor per link), "bad" (a page that ends in an anchor whose    *)
(* href value has no closing quote).                                       *)

WebPages ==
    {[kind |-> "fail", links |-> {}], [kind |-> "bad", links |-> {}]}
    \cup {[kind |-> "ok", links |-> L] : L \in SUBSET (1..NumUrls)}

\* The web holds at most MaxLinks links in all.
MaxLinks == 4

RECURSIVE LinksFrom(_, _)
LinksFrom(w, i) == IF i > NumUrls THEN 0 ELSE Cardinality(w[i].links) + LinksFrom(w, i + 1)

Webs == {w \in [1..NumUrls -> WebPages] : LinksFrom(w, 1) <= MaxLinks}

UrlIndex(u) == CHOOSE i \in 1..NumUrls : Url(i) = u

\* <a href="http://x">l</a> followed by a blank; a page's link to itself
\* carries a fragment, <a href="http://x#top">.
RenderLink(i, j) ==
    Marker \o DQ \o Url(j) \o (IF i = j THEN <<"#", "t", "o", "p">> ELSE <<>>) \o DQ
    \o <<">", "l", "<", "/", "a", ">", " ">>

RECURSIVE RenderLinksFrom(_, _, _)
RenderLinksFrom(i, links, j) ==
    IF j > NumUrls THEN <<>>
    ELSE (IF j \in links THEN RenderLink(i, j) ELSE <<>>) \o RenderLinksFrom(i, links, j + 1)

\* The words of page i; the first page also holds a relative and a mailto anchor.
PageText(i) ==
    (IF i % 2 = 1 THEN <<"h", "i", " ">> ELSE <<>>)
    \o (IF i = 1
        THEN Marker \o DQ \o <<"/", "x">> \o DQ \o <<">", "r", "<", "/", "a", ">", " ">>
             \o Marker \o DQ \o <<"m", "a", "i", "l", "t", "o", ":", "m">> \o DQ
             \o <<">", "m", "<", "/", "a", ">", " ">>
        ELSE <<>>)

UnclosedAnchor == Marker \o DQ \o Url(1) \o <<">", "l", "<", "/", "a", ">">>

PageContent(i, p) ==
    PageText(i) \o RenderLinksFrom(i, p.links, 1)
    \o (IF p.kind = "bad" THEN UnclosedAnchor ELSE <<>>)

\* Lines 14-21: the page, or "" when anything raised.
getPage(w, url) ==
    IF w[UrlIndex(url)].kind = "fail" THEN <<>> ELSE PageContent(UrlIndex(url), w[UrlIndex(url)])

---------------------------------------------------------------------------
(* crawlWeb                                                                *)

Seed == Url(1)

\* Line 165: graph[page] = outlinks
SetKey(g, key, value) == [k \in DOMAIN g \cup {key} |-> IF k = key THEN value ELSE g[k]]

\* Lines 154-157.
CrawlInit ==
    /\ web \in Webs
    /\ tocrawl = {Seed}
    /\ crawled = {}
    /\ index = <<>>
    /\ graph = <<>>
    /\ fetches = [u \in Urls |-> 0]
    /\ pc = "loop"

\* CrawlPage that records nothing in graph for a page without content.
CrawlPageNoGraphOnEmpty(page) ==
    LET content  == getPage(web, page)
        found    == linkFinder(content, <<>>)
    IN  /\ fetches' = [fetches EXCEPT ![page] = @ + 1]
        /\ index' = addPageToIndex(index, page, content)
        /\ IF found.hung
           THEN /\ tocrawl' = tocrawl \ {page}
                /\ pc' = "linkFinder"
                /\ UNCHANGED <<graph, crawled>>
           ELSE /\ graph' = IF content = <<>> THEN graph ELSE SetKey(graph, page, found.urls)
                /\ tocrawl' = (tocrawl \ {page}) \cup found.urls
                /\ crawled' = crawled \cup {page}
                /\ pc' = "loop"

\* CrawlPage with tocrawl = outlinks in place of union(tocrawl, outlinks).
CrawlPageDropPending(page) ==
    LET content  == getPage(web, page)
        found    == linkFinder(content, <<>>)
    IN  /\ fetches' = [fetches EXCEPT ![page] = @ + 1]
        /\ index' = addPageToIndex(index, page, content)
        /\ IF found.hung
           THEN /\ tocrawl' = tocrawl \ {page}
                /\ pc' = "linkFinder"
                /\ UNCHANGED <<graph, crawled>>
           ELSE /\ graph' = SetKey(graph, page, found.urls)
                /\ tocrawl' = found.urls
                /\ crawled' = crawled \cup {page}
                /\ pc' = "loop"

\* CrawlPage that also makes every outlink a key of graph at once.
CrawlPageKeysForLinks(page) ==
    LET content  == getPage(web, page)
        found    == linkFinder(content, <<>>)
    IN  /\ fetches' = [fetches EXCEPT ![page] = @ + 1]
        /\ index' = addPageToIndex(index, page, content)
        /\ IF found.hung
           THEN /\ tocrawl' = tocrawl \ {page}
                /\ pc' = "linkFinder"
                /\ UNCHANGED <<graph, crawled>>
           ELSE /\ graph' = [u \in DOMAIN graph \cup {page} \cup found.urls |->
                                IF u = page THEN found.urls
                                ELSE IF u \in DOMAIN graph THEN graph[u] ELSE {}]
                /\ tocrawl' = (tocrawl \ {page}) \cup found.urls
                /\ crawled' = crawled \cup {page}
                /\ pc' = "loop"

\* CrawlPage without line 166: the outlinks are not added to tocrawl.
CrawlPageNoNewPending(page) ==
    LET content  == getPage(web, page)
        found    == linkFinder(content, <<>>)
    IN  /\ fetches' = [fetches EXCEPT ![page] = @ + 1]
        /\ index' = addPageToIndex(index, page, content)
        /\ IF found.hung
           THEN /\ tocrawl' = tocrawl \ {page}
                /\ pc' = "linkFinder"
                /\ UNCHANGED <<graph, crawled>>
           ELSE /\ graph' = SetKey(graph, page, found.urls)
                /\ tocrawl' = tocrawl \ {page}
                /\ crawled' = crawled \cup {page}
                /\ pc' = "loop"

\* Lines 162-167, for a page that is not in crawled.  When linkFinder never
\* returns (line 164), control stays inside it: lines 165-167 are not reached.
CrawlPage(page) ==
    LET content  == getPage(web, page)
        found    == linkFinder(content, <<>>)
    IN  /\ fetches' = [fetches EXCEPT ![page] = @ + 1]
        /\ index' = addPageToIndex(index, page, content)
        /\ IF found.hung
           THEN /\ tocrawl' = tocrawl \ {page}
                /\ pc' = "linkFinder"
                /\ UNCHANGED <<graph, crawled>>
           ELSE /\ graph' = SetKey(graph, page, found.urls)
                /\ tocrawl' = (tocrawl \ {page}) \cup found.urls
                /\ crawled' = crawled \cup {page}
                /\ pc' = "loop"

\* CrawlIteration without the test of line 161.
CrawlIterationNoCheck(page) == CrawlPage(page)

\* Lines 160-167: one iteration of the loop, tocrawl.pop() giving page.
CrawlIteration(page) ==
    IF page \in crawled
    THEN /\ tocrawl' = tocrawl \ {page}
         /\ UNCHANGED <<crawled, index, graph, fetches, pc>>
    ELSE CrawlPage(page)

\* Lines 159-167: the loop runs while tocrawl is not empty; set.pop() removes
\* an arbitrary element.
CrawlStep ==
    /\ pc = "loop"
    /\ \E page \in tocrawl : CrawlIteration(page)
    /\ UNCHANGED web
    /\ UNCHANGED <<lfVars, ixVars, rkVars, lkVars>>

\* Lines 159 and 168: tocrawl is empty, return index, graph.
CrawlReturn ==
    /\ pc = "loop"
    /\ tocrawl = {}
    /\ pc' = "done"
    /\ UNCHANGED <<web, tocrawl, crawled, index, graph, fetches>>
    /\ UNCHANGED <<lfVars, ixVars, rkVars, lkVars>>

---------------------------------------------------------------------------
(* computeRanks.  The ranks are exact rationals.  After k iterations every *)
(* rank is a multiple of 1 / Den(k), where                                 *)
(*     Den(k) = npages * (DampingDen * L)^k                                *)
(* and L is the least common multiple of the out-degrees, so ranks holds   *)
(* the numerators over Den(rkI).  A numerator does not fit a machine       *)
(* integer after ten iterations: it is a sequence of digits in base        *)
(* LimbBase, least significant first, without leading zeros (0 is <<>>).   *)

LimbBase == 10 * 10 * 10 * 10

RECURSIVE BigNat(_)
BigNat(n) == IF n = 0 THEN <<>> ELSE <<n % LimbBase>> \o BigNat(n \div LimbBase)

RECURSIVE BigAddCarry(_, _, _)
BigAddCarry(a, b, carry) ==
    IF a = <<>> /\ b = <<>> THEN BigNat(carry)
    ELSE LET x == (IF a = <<>> THEN 0 ELSE Head(a)) + (IF b = <<>> THEN 0 ELSE Head(b)) + carry
         IN  <<x % LimbBase>>
             \o BigAddCarry(IF a = <<>> THEN <<>> ELSE Tail(a),
                            IF b = <<>> THEN <<>> ELSE Tail(b), x \div LimbBase)

\* a + b
BigAdd(a, b) == BigAddCarry(a, b, 0)

RECURSIVE BigMulCarry(_, _, _)
BigMulCarry(a, m, carry) ==
    IF a = <<>> THEN BigNat(carry)
    ELSE LET x == Head(a) * m + carry
         IN  <<x % LimbBase>> \o BigMulCarry(Tail(a), m, x \div LimbBase)

\* a * m, for a small natural number m
BigMul(a, m) == IF m = 0 THEN <<>> ELSE BigMulCarry(a, m, 0)

RECURSIVE BigDivFrom(_, _, _, _)
BigDivFrom(a, m, i, rem) ==
    IF i = 0 THEN <<>>
    ELSE LET x == rem * LimbBase + a[i]
         IN  BigDivFrom(a, m, i - 1, x % m) \o <<x \div m>>

RECURSIVE BigTrim(_)
BigTrim(a) == IF a = <<>> \/ a[Len(a)] # 0 THEN a ELSE BigTrim(SubSeq(a, 1, Len(a) - 1))

\* a \div m, for a small m > 0
BigDiv(a, m) == BigTrim(BigDivFrom(a, m, Len(a), 0))

\* Line 181: damping = 0.8 = DampingNum / DampingDen
DampingNum == 4
DampingDen == 5

\* Line 182
numloops == 10

\* Line 184: npages = len(graph)
NPages(g) == Cardinality(DOMAIN g)

\* len(graph[node])
OutDegree(g, node) == Cardinality(g[node])

RECURSIVE Factorial(_)
Factorial(n) == IF n = 0 THEN 1 ELSE n * Factorial(n - 1)

\* The least common multiple of the out-degrees that are not 0.
OutLcm(g) ==
    LET degrees == {OutDegree(g, node) : node \in DOMAIN g} \ {0}
        most    == Factorial(Cardinality(UNION {g[node] : node \in DOMAIN g}))
    IN  Min({m \in 1..most : \A d \in degrees : m % d = 0})

\* (DampingDen * L)^k, so that Den(k) = npages * Scale(g, k)
RECURSIVE Scale(_, _)
Scale(g, k) == IF k = 0 THEN BigNat(1) ELSE BigMul(Scale(g, k - 1), DampingDen * OutLcm(g))

\* `for page in graph`: the keys in the order of their names.
RECURSIVE SortedKeys(_)
SortedKeys(S) ==
    IF S = {} THEN <<>>
    ELSE LET first == CHOOSE u \in S : \A v \in S : UrlIndex(u) <= UrlIndex(v)
         IN  <<first>> \o SortedKeys(S \ {first})

\* Den(k) = npages * (DampingDen * L)^k
Den(g, k) == BigMul(Scale(g, k), NPages(g))

\* initialRanks when every page starts at rank 1 (NPages(g) / Den(0)).
initialRanksUnnormalised(g) == [page \in DOMAIN g |-> BigNat(NPages(g))]

\* Lines 186-187: ranks[page] = 1 / npages, over Den(0) = npages.
initialRanks(g) == [page \in DOMAIN g |-> BigNat(1)]

\* addInlinks when ranks[node] is not divided by len(graph[node]).
RECURSIVE addInlinksNoDegree(_, _, _, _, _, _)
addInlinksNoDegree(g, old, page, nodes, i, acc) ==
    IF i > Len(nodes) THEN acc
    ELSE addInlinksNoDegree(g, old, page, nodes, i + 1,
             IF page \in g[nodes[i]]
             THEN BigAdd(acc, BigMul(old[nodes[i]], DampingNum * OutLcm(g)))
             ELSE acc)

\* Lines 193-195 for one page: the loop over node, from the i-th key on, adding
\* damping * (ranks[node] / len(graph[node])) over Den(k + 1) to acc.
RECURSIVE addInlinks(_, _, _, _, _, _)
addInlinks(g, old, page, nodes, i, acc) ==
    IF i > Len(nodes) THEN acc
    ELSE addInlinks(g, old, page, nodes, i + 1,
             IF page \in g[nodes[i]]
             THEN BigAdd(acc, BigMul(old[nodes[i]],
                                     DampingNum * (OutLcm(g) \div OutDegree(g, nodes[i]))))
             ELSE acc)

\* newRankOf when newrank[page] starts at 0 in place of (1 - damping) / npages.
newRankOfNoBase(g, old, page, k) ==
    addInlinks(g, old, page, SortedKeys(DOMAIN g), 1, <<>>)

\* Lines 192-195: newrank[page], over Den(k + 1), read from the ranks old.
\* (1 - damping) / npages is (DampingDen - DampingNum) * L * Scale(g, k) / Den(k + 1).
newRankOf(g, old, page, k) ==
    addInlinks(g, old, page, SortedKeys(DOMAIN g), 1,
               BigMul(Scale(g, k), (DampingDen - DampingNum) * OutLcm(g)))

\* sweepFrom as an in-place update: a page whose rank was already written in
\* this iteration is read at its new value (brought back to Den(k), rounded
\* down) in place of its old one.
RECURSIVE sweepInPlaceFrom(_, _, _, _, _, _)
sweepInPlaceFrom(g, old, pages, i, newrank, k) ==
    IF i > Len(pages) THEN newrank
    ELSE sweepInPlaceFrom(g, old, pages, i + 1,
             SetKey(newrank, pages[i],
                    newRankOf(g, [q \in DOMAIN old |->
                                     IF q \in DOMAIN newrank
                                     THEN BigDiv(newrank[q], DampingDen * OutLcm(g))
                                     ELSE old[q]],
                              pages[i], k)), k)

\* Lines 190-195: one iteration builds newrank page by page, from the i-th key
\* on; every page reads the ranks of the iteration before.
RECURSIVE sweepFrom(_, _, _, _, _, _)
sweepFrom(g, old, pages, i, newrank, k) ==
    IF i > Len(pages) THEN newrank
    ELSE sweepFrom(g, old, pages, i + 1,
                   SetKey(newrank, pages[i], newRankOf(g, old, pages[i], k)), k)

\* Lines 190-196: the ranks after iteration k + 1, from those after iteration k.
rankSweep(g, old, k) == sweepFrom(g, old, SortedKeys(DOMAIN g), 1, <<>>, k)

\* initDividesByZero when 1 / npages is computed once, ahead of the loop.
initDividesByZeroHoisted(g) == NPages(g) = 0

\* Which evaluations divide by zero.  Line 187 divides by npages once per page.
initDividesByZero(g) == \E page \in DOMAIN g : NPages(g) = 0

\* sweepDividesByZero when ranks[node] / len(graph[node]) is evaluated for
\* every node, ahead of the test `page in graph[node]`.
sweepDividesByZeroEveryNode(g) ==
    \/ \E page \in DOMAIN g : NPages(g) = 0
    \/ \E page \in DOMAIN g, node \in DOMAIN g : OutDegree(g, node) = 0

\* Lines 192 and 195: by npages once per page, by len(graph[node]) once per
\* node that links to the page.
sweepDividesByZero(g) ==
    \/ \E page \in DOMAIN g : NPages(g) = 0
    \/ \E page \in DOMAIN g, node \in DOMAIN g : page \in g[node] /\ OutDegree(g, node) = 0

---------------------------------------------------------------------------
(* The rank engine on its own: every graph over at most MaxPages pages.    *)

MaxPages == 2

RankUrls == {Url(i) : i \in 1..MaxPages}

RankGraphs == UNION {[K -> SUBSET RankUrls] : K \in SUBSET RankUrls}

RkInit ==
    /\ rkGraph \in RankGraphs
    /\ ranks = <<>>
    /\ rkI = 0
    /\ rkFault = FALSE
    /\ rkPc = "call"

\* Lines 181-187.  A ZeroDivisionError leaves the function.
RankStart ==
    /\ rkPc = "call"
    /\ IF initDividesByZero(rkGraph)
       THEN rkFault' = TRUE /\ rkPc' = "raised" /\ UNCHANGED ranks
       ELSE rkFault' = FALSE /\ rkPc' = "loop" /\ ranks' = initialRanks(rkGraph)
    /\ UNCHANGED <<rkGraph, rkI>>
    /\ UNCHANGED <<lfVars, ixVars, crawlVars, lkVars>>

\* Lines 189-196: one iteration of `for i in range(numloops)`.
RankIterate ==
    /\ rkPc = "loop"
    /\ rkI < numloops
    /\ IF sweepDividesByZero(rkGraph)
       THEN rkFault' = TRUE /\ rkPc' = "raised" /\ UNCHANGED <<ranks, rkI>>
       ELSE /\ ranks' = rankSweep(rkGraph, ranks, rkI)
            /\ rkI' = rkI + 1
            /\ UNCHANGED <<rkFault, rkPc>>
    /\ UNCHANGED rkGraph
    /\ UNCHANGED <<lfVars, ixVars, crawlVars, lkVars>>

\* Lines 189 and 198: the range is exhausted, return ranks.
RankReturn ==
    /\ rkPc = "loop"
    /\ rkI = numloops
    /\ rkPc' = "done"
    /\ UNCHANGED <<rkGraph, ranks, rkI, rkFault>>
    /\ UNCHANGED <<lfVars, ixVars, crawlVars, lkVars>>

---------------------------------------------------------------------------
(* lookUpRanked.  A dict is kept in its iteration order where the order    *)
(* shows: index is the sequence of its entries [word, urls], readyToSort   *)
(* is the sequence of its keys with the mapping of their values.           *)

UpperCase == <<"A", "B", "C", "D", "E", "F", "G", "H", "I", "J", "K", "L", "M",
               "N", "O", "P", "Q", "R", "S", "T", "U", "V", "W", "X", "Y", "Z">>
LowerCase == <<"a", "b", "c", "d", "e", "f", "g", "h", "i", "j", "k", "l", "m",
               "n", "o", "p", "q", "r", "s", "t", "u", "v", "w", "x", "y", "z">>

lowerChar(c) ==
    IF \E i \in DOMAIN UpperCase : UpperCase[i] = c
    THEN LowerCase[CHOOSE i \in DOMAIN UpperCase : UpperCase[i] = c]
    ELSE c

\* str.lower()
RECURSIVE lower(_)
lower(s) == IF s = <<>> THEN <<>> ELSE <<lowerChar(Head(s))>> \o lower(Tail(s))

\* sub in s
Contains(s, sub) == Find(s, sub, 0) # -1

\* Line 214 with the keyword equal to the lowercased word.
matchesExactly(keyword, word) == keyword = lower(word)

\* Line 214: keyword in word.lower()
matches(keyword, word) == Contains(lower(word), keyword)

\* ranks.get(url, 0)
rankOrZero(rnk, url) == IF url \in DOMAIN rnk THEN rnk[url] ELSE 0

\* Line 217: readyToSort[key] = value; a new key goes last, a known key keeps
\* its place and has its value overwritten.
put(ready, url, value) ==
    IF url \in DOMAIN ready.value
    THEN [ready EXCEPT !.value[url] = value]
    ELSE [keys |-> Append(ready.keys, url), value |-> SetKey(ready.value, url, value)]

\* Lines 216-217: for elements in unsortedlist, from the i-th element on.
RECURSIVE collectFrom(_, _, _, _)
collectFrom(urls, i, ready, rnk) ==
    IF i > Len(urls) THEN ready
    ELSE collectFrom(urls, i + 1, put(ready, urls[i], rankOrZero(rnk, urls[i])), rnk)

\* Lines 213-217: for word in index.keys(), from the i-th entry on.
RECURSIVE scanFrom(_, _, _, _, _)
scanFrom(idx, i, keyword, ready, rnk) ==
    IF i > Len(idx) THEN ready
    ELSE scanFrom(idx, i + 1, keyword,
                  IF matches(keyword, idx[i].word)
                  THEN collectFrom(idx[i].urls, 1, ready, rnk)
                  ELSE ready,
                  rnk)

\* insertDescending for an ascending sort.
insertAscending(out, url, value) ==
    LET k == Cardinality({j \in 1..Len(out) : value[out[j]] <= value[url]})
    IN  SubSeq(out, 1, k) \o <<url>> \o SubSeq(out, k + 1, Len(out))

\* One step of the stable descending sort: url goes after the elements whose
\* value is at least its own.
insertDescending(out, url, value) ==
    LET k == Cardinality({j \in 1..Len(out) : value[out[j]] >= value[url]})
    IN  SubSeq(out, 1, k) \o <<url>> \o SubSeq(out, k + 1, Len(out))

\* Line 220: sorted(readyToSort, key=readyToSort.get, reverse=True), from the
\* i-th key on.
RECURSIVE sortedFrom(_, _, _, _)
sortedFrom(keys, i, value, out) ==
    IF i > Len(keys) THEN out
    ELSE sortedFrom(keys, i + 1, value, insertDescending(out, keys[i], value))

\* None
None == [none |-> TRUE, list |-> <<>>]

\* A returned list
List(l) == [none |-> FALSE, list |-> l]

\* returnValue with the sorted list returned in every case.
returnValueAlwaysList(ready) == List(sortedFrom(ready.keys, 1, ready.value, <<>>))

\* Lines 219-221
returnValue(ready) ==
    IF ready.keys # <<>>
    THEN List(sortedFrom(ready.keys, 1, ready.value, <<>>))
    ELSE None

\* Lines 210-221
lookUpRanked(idx, keyword, rnk) ==
    returnValue(scanFrom(idx, 1, lower(keyword), [keys |-> <<>>, value |-> <<>>], rnk))

---------------------------------------------------------------------------
(* lookUpRanked on its own: an index of up to two keys, each with a list   *)
(* of up to MaxHits URLs (addToIndex never leaves a list empty).           *)

MaxHits == 2

LkUrls == {Url(1), Url(2), Url(3)}

RECURSIVE UrlLists(_)
UrlLists(n) ==
    IF n = 0 THEN {<<>>}
    ELSE UrlLists(n - 1) \cup {Append(l, u) : l \in {x \in UrlLists(n - 1) : Len(x) = n - 1}, u \in LkUrls}

LkWords == { <<"O", "k", "t", "a", "y", "1", "2", "3">>, <<"t", "o", "k">> }

LkKeywords == { <<"o", "k", "t">>, <<"O", "K">>, <<"z">> }

LkEntries == [word : LkWords, urls : UrlLists(MaxHits) \ {<<>>}]

LkIndexes ==
    {<<>>} \cup {<<e>> : e \in LkEntries}
           \cup {<<p[1], p[2]>> : p \in {q \in LkEntries \X LkEntries : q[1].word # q[2].word}}

\* Scores of some of the URLs: Url(1) never has one.
LkRankings == {<<>>} \cup [{Url(2), Url(3)} -> {1, 2}]

LkInit ==
    /\ lkIndex \in LkIndexes
    /\ lkKeyword \in LkKeywords
    /\ lkRanks \in LkRankings
    /\ lkResult = <<>>
    /\ lkPc = "call"

\* Lines 201-221: the call.
LookUp ==
    /\ lkPc = "call"
    /\ lkResult' = lookUpRanked(lkIndex, lkKeyword, lkRanks)
    /\ lkPc' = "done"
    /\ UNCHANGED <<lkIndex, lkKeyword, lkRanks>>
    /\ UNCHANGED <<lfVars, ixVars, crawlVars, rkVars>>

---------------------------------------------------------------------------
(* Specifications: one per component, the other components idle.           *)

IxIdle ==
    /\ ixWords = <<>> /\ ixUrl = <<>> /\ ixContent = <<>> /\ ixOld = <<>> /\ ixPc = "idle"

CrawlIdle ==
    /\ web = <<>> /\ tocrawl = {} /\ crawled = {} /\ graph = <<>>
    /\ fetches = <<>> /\ pc = "idle"

RkIdle ==
    /\ rkGraph = <<>> /\ ranks = <<>> /\ rkI = 0 /\ rkFault = FALSE /\ rkPc = "idle"

LkIdle ==
    /\ lkIndex = <<>> /\ lkKeyword = <<>> /\ lkRanks = <<>> /\ lkResult = <<>> /\ lkPc = "idle"

InitLF == LFInit /\ IxIdle /\ index = <<>> /\ CrawlIdle /\ RkIdle /\ LkIdle
NextLF == LFIter \/ LFReturn
SpecLF == InitLF /\ [][NextLF]_vars

Init == CrawlInit /\ LFIdle /\ IxIdle /\ RkIdle /\ LkIdle
Next == CrawlStep \/ CrawlReturn
Spec == Init /\ [][Next]_vars

InitRk == RkInit /\ LFIdle /\ IxIdle /\ index = <<>> /\ CrawlIdle /\ LkIdle
NextRk == RankStart \/ RankIterate \/ RankReturn
SpecRk == InitRk /\ [][NextRk]_vars

\* Lines 228-229: index, graph = crawlWeb(seed); ranks = computeRanks(graph).
MainComputeRanks ==
    /\ pc = "done"
    /\ rkPc = "idle"
    /\ rkGraph' = graph
    /\ rkPc' = "call"
    /\ UNCHANGED <<ranks, rkI, rkFault>>
    /\ UNCHANGED <<lfVars, ixVars, crawlVars, lkVars>>

NextMain ==
    \/ CrawlStep
    \/ CrawlReturn
    \/ MainComputeRanks
    \/ RankStart
    \/ RankIterate
    \/ RankReturn
SpecMain == Init /\ [][NextMain]_vars

InitLk == LkInit /\ LFIdle /\ IxIdle /\ index = <<>> /\ CrawlIdle /\ RkIdle
NextLk == LookUp
SpecLk == InitLk /\ [][NextLk]_vars

InitIx == IxInit /\ LFIdle /\ CrawlIdle /\ RkIdle /\ LkIdle
NextIx == IxAddPage
SpecIx == InitIx /\ [][NextIx]_vars

---------------------------------------------------------------------------
(* Properties of the link extractor (SpecLF).                              *)

Range(f) == {f[i] : i \in DOMAIN f}

AllWellFormed(as) == \A i \in DOMAIN as : as[i].kind \in WellFormedKinds

\* The text of v before its first '#'.
RECURSIVE BeforeHash(_)
BeforeHash(v) ==
    IF v = <<>> \/ Head(v) = "#" THEN <<>> ELSE <<Head(v)>> \o BeforeHash(Tail(v))

IsAbsolute(v) ==
    \/ (Len(v) >= 7 /\ SubSeq(v, 1, 7) = Http)
    \/ (Len(v) >= 8 /\ SubSeq(v, 1, 8) = Https)

\* The four steps of the link extractor's contract applied to one quoted value:
\* the final form of the value (steps 1-3); step 4 keeps it when IsAbsolute.
FinalForm(v, base) ==
    LET v1 == BeforeHash(v)
        v2 == IF Len(v1) >= 2 /\ v1[1] = "/" /\ v1[2] = "/" THEN HttpColon \o v1 ELSE v1
    IN  IF IsAbsolute(v2) \/ base = <<>> THEN v2
        ELSE IF Len(v2) >= 1 /\ v2[1] = "/" THEN base \o v2
        ELSE base \o <<"/">> \o v2

ExpectedLinks(as, base) ==
    {u \in {FinalForm(as[i].val, base) : i \in {j \in DOMAIN as : as[j].kind \in WellFormedKinds}} :
        IsAbsolute(u)}

ExampleAnchors == << [kind |-> "ok", val |-> <<"/", "x">>], [kind |-> "ok", val |-> ExampleCom] >>

\* C5: on markup with a malformed marker linkFinder still terminates and skips
\* the marker: every iteration that finds a marker leaves a strictly shorter
\* page without that marker, and no URL is ever emitted other than those of
\* the well-formed anchors.
C5_MalformedMarkersSkipped ==
    ~AllWellFormed(lfAnchors) =>
        /\ (lfPc = "scan" /\ Find(lfPage, Marker, 0) # -1) =>
              Len(linkFinderIter(lfPage, lfUrls, lfBase).page)
                  <= Len(lfPage) - Find(lfPage, Marker, 0) - Len(Marker)
        /\ lfUrls \subseteq ExpectedLinks(lfAnchors, lfBase)

\* C6: on markup whose markers are all immediately followed by a complete
\* double-quoted value, linkFinder returns exactly the links obtained from the
\* quoted values by: strip the fragment, prefix 'http:' to '//', resolve a
\* non-absolute value against the base (base + value when it starts with '/',
\* base + '/' + value otherwise), keep http:// and https:// only.  The markup
\* <a href="/x">l</a><a href="https://example.com">l2</a> with base
\* https://example.com yields {https://example.com/x, https://example.com}.
C6_WellFormedLinks ==
    (lfPc = "done" /\ AllWellFormed(lfAnchors)) =>
        /\ lfUrls = ExpectedLinks(lfAnchors, lfBase)
        /\ (lfAnchors = ExampleAnchors /\ lfBase = ExampleCom) =>
              lfUrls = {ExampleCom \o <<"/", "x">>, ExampleCom}

C6_Witness ==
    /\ lfPc = "done"
    /\ lfAnchors = ExampleAnchors
    /\ lfBase = ExampleCom
    /\ Cardinality(lfUrls) = 2
    /\ ExampleCom \o <<"/", "x">> \in lfUrls

\* C7: every URL linkFinder has collected or returns starts with http:// or
\* https://, whatever the markup and the base; with no base, every returned URL
\* is the final form of a value that was absolute or protocol-relative, never a
\* relative reference or a value of another scheme.
C7_OnlyHttpLinks ==
    /\ \A u \in lfUrls : IsAbsolute(u)
    /\ (lfBase = <<>> /\ AllWellFormed(lfAnchors)) =>
          \A u \in lfUrls : \E i \in DOMAIN lfAnchors :
              /\ u = FinalForm(lfAnchors[i].val, <<>>)
              /\ \/ IsAbsolute(lfAnchors[i].val)
                 \/ SubSeq(lfAnchors[i].val, 1, 2) = <<"/", "/">>

C7_Witness ==
    /\ lfPc = "done"
    /\ lfBase = <<>>
    /\ lfAnchors = << [kind |-> "ok", val |-> <<"m", "a", "i", "l", "t", "o", ":", "m">>],
                      [kind |-> "ok", val |-> <<"/", "x">>] >>
    /\ lfUrls = {}

---------------------------------------------------------------------------
(* Properties of the indexer (SpecIx).                                     *)

Occurrences(words, t) == Cardinality({i \in DOMAIN words : words[i] = t})

ListOf(idx, t) == IF t \in DOMAIN idx THEN idx[t] ELSE <<>>

\* C8: after addPageToIndex(index, url, text), for every token t the list
\* index[t] is the list it was before followed by one copy of url per
\* whitespace-delimited occurrence of t in text (case and punctuation kept,
\* duplicates kept); a token is a key exactly when it was one or occurs in the
\* text; a text with no tokens leaves the index unchanged.
C8_IndexGainsOccurrences ==
    ixPc = "ret" =>
        /\ DOMAIN index = DOMAIN ixOld \cup Range(ixWords)
        /\ \A t \in DOMAIN index :
              index[t] = ListOf(ixOld, t) \o [i \in 1..Occurrences(ixWords, t) |-> ixUrl]
        /\ (ixWords = <<>> => index = ixOld)

C8_Witness ==
    /\ ixPc = "ret"
    /\ ixWords = << <<"h", "i">>, <<"H", "i">>, <<"h", "i">> >>
    /\ ixUrl = Url(1)
    /\ DOMAIN ixOld = { <<"h", "i">> }
    /\ index[<<"h", "i">>] = <<Url(1), Url(1), Url(1)>>
    /\ index[<<"H", "i">>] = <<Url(1)>>

---------------------------------------------------------------------------
(* Properties of the crawler (Spec).                                       *)

Failed(u) == web[UrlIndex(u)].kind = "fail"

\* C1: crawlWeb terminates: whatever the order in which URLs are popped, the
\* pending set becomes empty and the crawl returns.  Every iteration that
\* completes takes a URL out of the pending set and adds only when it moves a
\* URL of the finite universe into the visited set, so the loop ends unless an
\* iteration never completes: the claim is that the crawl is never inside a
\* call that does not return.
C1_CrawlTerminates == pc \in {"loop", "done"}

\* C2: getPage is called at most once for each URL, whatever the order of
\* removal and however often a URL is put back into the pending set.
C2_FetchedAtMostOnce == \A u \in Urls : fetches[u] <= 1

\* A crawled URL is in the pending set again, and a second URL is crawled.
C2_Witness ==
    \E u \in Urls :
        /\ u \in crawled /\ u \in tocrawl /\ fetches[u] = 1
        /\ \E v \in crawled : v # u

\* C3: at the start of every iteration of the loop and when crawlWeb returns,
\* the visited set is the set of keys of the graph.
C3_VisitedIsGraphKeys == pc \in {"loop", "done"} => crawled = DOMAIN graph

C3_Witness ==
    /\ pc = "done"
    /\ Cardinality(crawled) = NumUrls
    /\ \E u \in crawled : Failed(u)

\* The step that fetches a failing URL u leaves the index as it was, records
\* graph[u] = {}, adds u to the visited set and takes no other URL out of the
\* pending set.
C4_FailureStep ==
    \A u \in Urls :
        (Failed(u) /\ fetches[u] = 0 /\ fetches'[u] = 1) =>
            /\ index' = index
            /\ u \in DOMAIN graph' /\ graph'[u] = {}
            /\ crawled' = crawled \cup {u}
            /\ tocrawl' = tocrawl \ {u}
            /\ pc' = "loop"

\* Once a failed URL has been crawled, every URL popped from the pending set
\* ends in the visited set.
C4_PendingStillCrawled ==
    \A v \in Urls :
        ((\E u \in Urls : Failed(u) /\ u \in crawled) /\ pc = "loop" /\ v \in tocrawl
            /\ (v \notin tocrawl' \/ fetches'[v] # fetches[v])) =>
        v \in crawled'

\* C4: a fetch failure never aborts the crawl: the failing step has the effects
\* of C4_FailureStep, and every URL that is pending once a failed URL has been
\* crawled is crawled when its turn comes.
C4_FailureDoesNotAbort == [][C4_FailureStep /\ C4_PendingStillCrawled]_vars

---------------------------------------------------------------------------
(* Properties of computeRanks, under SpecRk.                               *)

\* The pages q with p in outlinks(q).
InLinks(g, p) == {q \in DOMAIN g : p \in g[q]}

RECURSIVE BigSum(_, _)
BigSum(S, term) ==
    IF S = {} THEN <<>>
    ELSE LET q == CHOOSE x \in S : TRUE
         IN  BigAdd(term[q], BigSum(S \ {q}, term))

\* newRank(p) = (1 - 0.8)/N + 0.8 * sum of oldRank(q)/|outlinks(q)| over the
\* in-links q of p, as a numerator over Den(k + 1).
newRank(g, old, p, k) ==
    BigAdd(BigMul(Scale(g, k), (5 - 4) * OutLcm(g)),
           BigSum(InLinks(g, p),
                  [q \in DOMAIN g |-> BigMul(old[q], 4 * (OutLcm(g) \div OutDegree(g, q)))]))

\* The synchronous update of the given pages: every page reads old.
RECURSIVE synchronousUpdate(_, _, _, _)
synchronousUpdate(g, old, pages, k) ==
    IF pages = {} THEN <<>>
    ELSE LET p == CHOOSE x \in pages : TRUE
         IN  (p :> newRank(g, old, p, k)) @@ synchronousUpdate(g, old, pages \ {p}, k)

\* k synchronous updates from rank 1/N for every page.
RECURSIVE updatedTimes(_, _)
updatedTimes(g, k) ==
    IF k = 0 THEN [p \in DOMAIN g |-> BigNat(1)]
    ELSE LET old == updatedTimes(g, k - 1)
         IN  IF DOMAIN old = {} THEN old ELSE synchronousUpdate(g, old, DOMAIN g, k - 1)

\* C9: computeRanks returns the ranks that 10 synchronous updates from 1/N
\* give, and on the way the ranks after i iterations are those of i updates.
C9_TenSynchronousUpdates ==
    /\ rkPc = "loop" => ranks = updatedTimes(rkGraph, rkI)
    /\ rkPc = "done" => ranks = updatedTimes(rkGraph, 10)

C9_Witness ==
    /\ rkPc = "done"
    /\ \E p \in DOMAIN rkGraph, q \in DOMAIN rkGraph :
          /\ p # q
          /\ OutDegree(rkGraph, q) >= 2
          /\ Cardinality(InLinks(rkGraph, p)) >= 2
          /\ ranks[p] # ranks[q]

\* C10: on the empty graph no division by zero is evaluated, and the result
\* is the empty mapping.
C10_EmptyGraphEmptyRanks ==
    DOMAIN rkGraph = {} =>
        /\ ~rkFault
        /\ rkPc # "raised"
        /\ rkPc = "done" => DOMAIN ranks = {}

C10_Witness == DOMAIN rkGraph = {} /\ rkPc = "done" /\ rkI = 10 /\ ~rkFault

\* A page of the graph without out-links.
Dangling(g, p) == p \in DOMAIN g /\ g[p] = {}

\* The rank of page p is a / b: b * numerator = a * Den(rkI).
RankIs(p, a, b) == BigMul(ranks[p], b) = BigMul(Den(rkGraph, rkI), a)

\* C11: on a non-empty graph with dangling pages no division by zero is
\* evaluated, and after every iteration a page without an in-link from a page
\* of the graph has rank (1 - 0.8)/N = 1/(5 N).
C11_DanglingMassNotRedistributed ==
    (\E d \in DOMAIN rkGraph : Dangling(rkGraph, d)) =>
        /\ ~rkFault
        /\ rkPc # "raised"
        /\ (rkPc \in {"loop", "done"} /\ rkI >= 1) =>
              \A p \in DOMAIN rkGraph :
                  InLinks(rkGraph, p) = {} => RankIs(p, 1, 5 * NPages(rkGraph))

C11_Witness ==
    /\ rkPc = "done"
    /\ rkI = 10
    /\ \E d \in DOMAIN rkGraph, p \in DOMAIN rkGraph :
          /\ Dangling(rkGraph, d)
          /\ InLinks(rkGraph, d) # {}
          /\ InLinks(rkGraph, p) = {}

\* Every page has at least one outbound edge.
EveryPageLinks(g) == \A p \in DOMAIN g : g[p] # {}

\* Every outbound edge leads to a page of the graph.
Closed(g) == \A p \in DOMAIN g : g[p] \subseteq DOMAIN g

\* The sum of the returned ranks is 1: the numerators sum to Den(10).
RanksSumToOne == BigSum(DOMAIN rkGraph, ranks) = Den(rkGraph, 10)

\* Every numerator is a natural number in digits of base LimbBase.
RanksNonNegative ==
    \A p \in DOMAIN ranks : \A i \in DOMAIN ranks[p] : ranks[p][i] \in 0..(LimbBase - 1)

\* C12: when computeRanks has run on the graph of a finished crawl in which
\* every page has an outbound edge, the returned ranks sum to 1 and none is
\* negative.
C12_RanksSumToOne ==
    (rkPc = "done" /\ EveryPageLinks(rkGraph)) => (RanksSumToOne /\ RanksNonNegative)

C12_Witness ==
    /\ rkPc = "done"
    /\ rkI = 10
    /\ EveryPageLinks(rkGraph)
    /\ \E p \in DOMAIN rkGraph, q \in DOMAIN rkGraph : ranks[p] # ranks[q]

\* The two-node symmetric graph {A -> {B}, B -> {A}}.
SymmetricPair(g) ==
    \E a \in DOMAIN g, b \in DOMAIN g :
        a # b /\ DOMAIN g = {a, b} /\ g[a] = {b} /\ g[b] = {a}

\* C13: on the two-node symmetric graph both ranks are 1/2 at the start, after
\* every iteration and in the result, which is returned after 10 iterations.
C13_SymmetricPairHalves ==
    SymmetricPair(rkGraph) =>
        /\ rkPc \in {"loop", "done"} => \A p \in DOMAIN rkGraph : RankIs(p, 1, 2)
        /\ rkPc = "done" => rkI = 10

C13_Witness == SymmetricPair(rkGraph) /\ rkPc = "done" /\ rkI = 10 /\ DOMAIN ranks = DOMAIN rkGraph

---------------------------------------------------------------------------
(* Properties of the crawl followed by computeRanks, under SpecMain.       *)

\* What a seed whose fetch fails leaves behind, but for the rank itself.
FailingSeedOutcome ==
    /\ index = <<>>
    /\ DOMAIN graph = {Seed} /\ graph[Seed] = {}
    /\ DOMAIN ranks = {Seed}

\* C14 as stated: a seed whose fetch fails yields Index = {},
\* Graph = {seed: {}} and Ranks = {seed: 1.0}.
C14_FailingSeedRankOne ==
    (Failed(Seed) /\ rkPc = "done") => (FailingSeedOutcome /\ RankIs(Seed, 1, 1))

\* C14 amended: a seed whose fetch fails yields Index = {},
\* Graph = {seed: {}} and Ranks = {seed: (1 - 0.8)/1} = {seed: 0.2}.
C14_FailingSeedRankFifth ==
    (Failed(Seed) /\ rkPc = "done") => (FailingSeedOutcome /\ RankIs(Seed, 1, 5))

C14_Witness == Failed(Seed) /\ rkPc = "done" /\ rkI = 10 /\ fetches[Seed] = 1 /\ pc = "done"

---------------------------------------------------------------------------
(* Properties of lookUpRanked, under SpecLk.                               *)

\* sub occurs in s as a run of consecutive characters.
IsSubstring(sub, s) ==
    \E i \in 1..(Len(s) + 1) : \E j \in (i - 1)..Len(s) : SubSeq(s, i, j) = sub

\* The entries whose lowercased key contains the lowercased keyword.
MatchingEntries ==
    {i \in DOMAIN lkIndex : IsSubstring(lower(lkKeyword), lower(lkIndex[i].word))}

\* The union of the URL lists of the matching keys.
MatchingUrls == UNION {Range(lkIndex[i].urls) : i \in MatchingEntries}

\* ranks.get(url, 0) of the call's ranks.
Score(u) == IF u \in DOMAIN lkRanks THEN lkRanks[u] ELSE 0

Oktay123 == <<"O", "k", "t", "a", "y", "1", "2", "3">>

\* C15: when some key matches, the URLs returned are exactly those of the
\* lists of the keys whose lowercased form contains the lowercased keyword,
\* each of them once.
C15_SubstringMatchUnion ==
    (lkPc = "done" /\ MatchingEntries # {}) =>
        /\ ~lkResult.none
        /\ Range(lkResult.list) = MatchingUrls
        /\ Cardinality(Range(lkResult.list)) = Len(lkResult.list)

C15_Witness ==
    /\ lkPc = "done"
    /\ lkKeyword = <<"o", "k", "t">>
    /\ \E i \in DOMAIN lkIndex :
          /\ lkIndex[i].word = Oktay123
          /\ Len(lkIndex[i].urls) = 2
          /\ lkIndex[i].urls[1] = lkIndex[i].urls[2]
    /\ Len(lkIndex) = 2
    /\ Len(lkResult.list) = 1

\* C16: None is returned exactly when no key matches, and a returned list is
\* never empty.
C16_NoneIffNoMatch ==
    lkPc = "done" =>
        /\ lkResult.none <=> MatchingEntries = {}
        /\ ~lkResult.none => lkResult.list # <<>>

C16_Witness == lkPc = "done" /\ lkResult.none /\ Len(lkIndex) = 2

\* C17: the returned list is in descending order of ranks.get(url, 0), also
\* for a URL that several matching keys contribute.
C17_DescendingScore ==
    (lkPc = "done" /\ ~lkResult.none) =>
        \A i \in DOMAIN lkResult.list : \A j \in DOMAIN lkResult.list :
            i < j => Score(lkResult.list[i]) >= Score(lkResult.list[j])

C17_Witness ==
    /\ lkPc = "done"
    /\ Len(lkResult.list) = 3
    /\ Score(lkResult.list[1]) > Score(lkResult.list[2])
    /\ Score(lkResult.list[2]) > Score(lkResult.list[3])
    /\ lkResult.list[3] \notin DOMAIN lkRanks
    /\ Cardinality(MatchingEntries) = 2
    /\ \E u \in Range(lkIndex[1].urls) \cap Range(lkIndex[2].urls) : Score(u) > 0

---------------------------------------------------------------------------
(* Properties of the crawl that do not depend on the order of tocrawl.pop(), *)
(* under Spec.                                                             *)

\* The absolute links extracted from the page the web serves for u.
ExtractedLinks(u) == linkFinder(getPage(web, u), <<>>).urls

\* The edges u -> v of the web: v is a link extracted from the page of u.
WebEdges == UNION {{<<u, v>> : v \in ExtractedLinks(u)} : u \in Urls}

\* The URLs reachable from those of S along the edges E.
RECURSIVE ReachableFrom(_, _)
ReachableFrom(S, E) ==
    LET next == S \cup {e[2] : e \in {x \in E : x[1] \in S}}
    IN  IF next = S THEN S ELSE ReachableFrom(next, E)

\* What the seed and the web fix, whatever the order: the keys are the
\* reachable URLs, each with the links extracted from its page.
IsExpectedGraph(g, reach, E) ==
    /\ DOMAIN g = reach
    /\ \A u \in reach : g[u] = {e[2] : e \in {x \in E : x[1] = u}}

\* Under every key the index lists each URL once per occurrence of the key on
\* the page of that URL, and lists nothing else.
IsExpectedIndex(idx, reach) ==
    /\ \A u \in Urls :
          LET words == IF u \in reach THEN Split(getPage(web, u)) ELSE <<>>
          IN  /\ Range(words) \subseteq DOMAIN idx
              /\ \A word \in DOMAIN idx : Occurrences(idx[word], u) = Occurrences(words, word)
    /\ \A word \in DOMAIN idx : idx[word] # <<>> /\ Range(idx[word]) \subseteq Urls

\* C18: a crawl that returns has the graph and, up to the order inside each
\* list, the index that the seed and the web fix; so every order of
\* tocrawl.pop() returns the same.
C18_OrderIndependent ==
    pc = "done" =>
        LET E     == WebEdges
            reach == ReachableFrom({Seed}, E)
        IN  IsExpectedGraph(graph, reach, E) /\ IsExpectedIndex(index, reach)

\* A returned crawl of three pages in which two URLs were pending together
\* (so that they were popped in either order) and share a word.
C18_Witness ==
    /\ pc = "done"
    /\ Cardinality(crawled) = NumUrls
    /\ ExtractedLinks(Seed) = Urls
    /\ \E word \in DOMAIN index : Cardinality(Range(index[word])) >= 2

\* One step of the crawl leaves every entry of graph as it is, adds a key only
\* for the URL crawled in that step, and removes nothing from crawled.
GraphFrameStep ==
    /\ \A u \in DOMAIN graph : u \in DOMAIN graph' /\ graph'[u] = graph[u]
    /\ crawled \subseteq crawled'
    /\ \A u \in Urls :
          (u \in DOMAIN graph' /\ u \notin DOMAIN graph) <=> (u \in crawled' /\ u \notin crawled)
    /\ \A u \in DOMAIN graph' \ DOMAIN graph : fetches[u] = 0 /\ fetches'[u] = 1
    /\ Cardinality(DOMAIN graph' \ DOMAIN graph) <= 1

\* Only crawled URLs are keys: a URL that is referenced but not yet crawled is
\* not a key.
OnlyCrawledAreKeys == DOMAIN graph \subseteq crawled

\* C19: graph[u] is written once, in the crawl step of u, and never changed
\* or removed afterwards; a URL not yet crawled is not a key; crawled only
\* grows.
C19_GraphWrittenOnce == [][GraphFrameStep /\ OnlyCrawledAreKeys /\ OnlyCrawledAreKeys']_vars

C19_Witness ==
    /\ pc = "loop"
    /\ Cardinality(crawled) >= 2
    /\ \E u \in DOMAIN graph : \E v \in graph[u] : v \notin DOMAIN graph /\ v \in tocrawl

\* C20: at the head of the loop every outlink of a key is crawled or pending;
\* at the return the graph is closed and its keys are the URLs reachable from
\* the seed by the extracted links.
C20_ClosedAtReturn ==
    /\ pc = "loop" => \A u \in DOMAIN graph : graph[u] \subseteq crawled \cup tocrawl
    /\ pc = "done" =>
          /\ Closed(graph)
          /\ Seed \in DOMAIN graph
          /\ DOMAIN graph = ReachableFrom({Seed}, WebEdges)

C20_Witness ==
    /\ pc = "done"
    /\ Cardinality(DOMAIN graph) = 2
    /\ \E u \in DOMAIN graph : u # Seed /\ Seed \in graph[u]
    /\ \E v \in Urls : v \notin DOMAIN graph /\ ExtractedLinks(v) # {}

===========================================================================
